---- MODULE Spec2Model ----
(***************************************************************************)
(* Model of lab_5_scraper/scraper.py: the bounded crawler (Crawler, entry  *)
(* point main) and the resumable recursive crawler (CrawlerRecursive,      *)
(* entry point main2) with its checkpoint file cash.json.                  *)
(*                                                                         *)
(* A string is a sequence of chunks; "https://pravda-nn.ru/" is one chunk, *)
(* so str.startswith is the prefix test on sequences and + is \o.          *)
(***************************************************************************)
EXTENDS Integers, Sequences, FiniteSets, TLC

VARIABLES
    entry,          \* "main" or "main2": the entry point that runs
    num_articles,   \* Config._num_articles
    seed_urls,      \* Config._seed_urls
    urls,           \* Crawler.urls / CrawlerRecursive.urls (a list)
    visited_urls,   \* CrawlerRecursive.visited_urls (a set)
    cash,           \* the checkpoint file lab_5_scraper/cash.json
    pc,             \* position of the running entry point
    idx,            \* position of the for loop in seed_urls / urls (1-based)
    examined,       \* anchors find_all has yielded for the current seed
    depth,          \* nested calls of CrawlerRecursive.find_articles
    runs,           \* process interruptions followed by a new run
    exc,            \* the exception that ended the run, "none" otherwise
    passLen,        \* history: len(urls) when the current pass / seed page began
    failedPass,     \* history: positions with a non-ok fetch in this pass
    failedRun,      \* history: positions with a non-ok fetch in this run
    cashGood,       \* history: last complete content of cash.json
    crashCash,      \* history: cashGood at the last interruption
    config,         \* Config.config: the ConfigDTO read from the JSON file
    assets,         \* the ASSETS_PATH directory
    requested,      \* history: the run has issued a network request
    fetched,        \* history: seed positions the bounded crawler fetched
    page,           \* the page HTMLParser.parse receives for its URL
    response,       \* HTMLParser.parse: the response of make_request
    article         \* HTMLParser.article

vars == <<entry, num_articles, seed_urls, urls, visited_urls, cash, pc, idx,
          examined, depth, runs, exc, passLen, failedPass, failedRun,
          cashGood, crashCash, config, assets, requested, fetched, page,
          response, article>>

(***************************************************************************)
(* Bounds of the model.                                                    *)
(***************************************************************************)
MaxT == 3        \* total_articles ranges over 1..MaxT
MaxSeeds == 2    \* the seed list has 1..MaxSeeds entries
MaxDepth == 2    \* stand-in for the interpreter's recursion limit
MaxRuns == 1     \* interruptions of main2 that are followed by a new run

(***************************************************************************)
(* Strings.                                                                *)
(***************************************************************************)
ROOT == "https://pravda-nn.ru/"

Domain == <<ROOT>>

start_url == <<ROOT>>

ExcludedPrefix == <<ROOT, "long/">>

EmptyStr == <<>>

\* href values the pages may carry
Hrefs == { <<"a">>, <<"b">>, <<"long/", "a">>, <<"/", "long/", "a">>,
           <<ROOT, "a">>, <<ROOT, "long/", "a">>, <<>> }

SeedUrlValues == { <<ROOT>>, <<ROOT, "news/">> }

SeedLists == UNION { [1..n -> SeedUrlValues] : n \in 1..MaxSeeds }

StartsWith(s, p) == Len(s) >= Len(p) /\ SubSeq(s, 1, Len(p)) = p

Range(s) == { s[i] : i \in 1..Len(s) }

InList(x, s) == x \in Range(s)

NoDup(s) == \A i, j \in 1..Len(s) : s[i] = s[j] => i = j

Take(s, n) == SubSeq(s, 1, IF n < Len(s) THEN n ELSE Len(s))

FirstIndex(s, x) == CHOOSE i \in 1..Len(s) : s[i] = x /\ \A j \in 1..(i-1) : s[j] # x

\* list.remove(x): drops the first occurrence
RemoveFirst(s, x) ==
    LET k == FirstIndex(s, x)
    IN  SubSeq(s, 1, k - 1) \o SubSeq(s, k + 1, Len(s))

CeilDiv(a, b) == (a + b - 1) \div b

(***************************************************************************)
(* The checkpoint file.                                                    *)
(***************************************************************************)
Absent == [state |-> "absent", urls |-> <<>>, visited_urls |-> {}]

\* opened with mode 'w' and not yet (or only partly) written: not valid JSON
Truncated == [state |-> "truncated", urls |-> <<>>, visited_urls |-> {}]

FileOf(u, v) == [state |-> "complete", urls |-> u, visited_urls |-> v]

(***************************************************************************)
(* Crawler._extract_url                                                    *)
(***************************************************************************)
\* variant: the excluded-path test is missing
extract_url_no_exclude(href, collected) ==
    LET url_for_extraction ==
            IF StartsWith(href, Domain) THEN href ELSE Domain \o href
    IN  IF ~InList(url_for_extraction, collected)
        THEN url_for_extraction
        ELSE EmptyStr

\* variant: the "not in self.urls" test is missing
extract_url_no_dedup(href, collected) ==
    LET url_for_extraction ==
            IF StartsWith(href, Domain) THEN href ELSE Domain \o href
    IN  IF ~StartsWith(url_for_extraction, ExcludedPrefix)
        THEN url_for_extraction
        ELSE EmptyStr

extract_url(href, collected) ==
    LET url_for_extraction ==
            IF StartsWith(href, Domain) THEN href ELSE Domain \o href
    IN  IF /\ ~InList(url_for_extraction, collected)
           /\ ~StartsWith(url_for_extraction, ExcludedPrefix)
        THEN url_for_extraction
        ELSE EmptyStr

(***************************************************************************)
(* JSON values of the configuration file.  A value carries its Python type *)
(* and, for numbers and booleans, its numeric value (True == 1).           *)
(***************************************************************************)
IntV(n) == [t |-> "int", n |-> n]

BoolV(b) == [t |-> "bool", n |-> IF b THEN 1 ELSE 0]

FloatV(n) == [t |-> "float", n |-> n]

StrV == [t |-> "str", n |-> 0]

DictV == [t |-> "dict", n |-> 0]

NullV == [t |-> "null", n |-> 0]

\* a JSON string inside the seed list, and a JSON number inside it
StrItem(s) == [t |-> "str", s |-> s]

IntItem == [t |-> "int", s |-> <<>>]

ListV(items) == [t |-> "list", items |-> items]

NotAList == [t |-> "str", items |-> <<>>]

\* isinstance(v, int): bool is a subclass of int
IsInt(v) == v.t \in {"int", "bool"}

IsBool(v) == v.t = "bool"

IsStr(v) == v.t = "str"

IsDict(v) == v.t = "dict"

IsList(v) == v.t = "list"

\* 'https://pravda-nn.ru/' in seed_url
ContainsDomain(s) == ROOT \in Range(s)

ArticlesRangeStop == 151

TimeoutRangeStop == 61

ConfigDTO(seeds, total, headers, encoding, timeout, verify, headless) ==
    [seed_urls |-> seeds, total_articles |-> total, headers |-> headers,
     encoding |-> encoding, timeout |-> timeout,
     should_verify_certificate |-> verify, headless_mode |-> headless]

(***************************************************************************)
(* Config._validate_config_content: the error it raises, "ok" when none    *)
(***************************************************************************)
\* variant: the headers are tested first, the seed list after them
validate_headers_first(c) ==
    IF ~IsDict(c.headers)
    THEN "IncorrectHeadersError"
    ELSE IF \/ ~IsList(c.seed_urls)
            \/ ~(\A i \in 1..Len(c.seed_urls.items) : IsStr(c.seed_urls.items[i]))
            \/ \E i \in 1..Len(c.seed_urls.items) : ~ContainsDomain(c.seed_urls.items[i].s)
    THEN "IncorrectSeedURLError"
    ELSE IF \/ ~IsInt(c.total_articles) \/ IsBool(c.total_articles)
            \/ c.total_articles.n <= 0
    THEN "IncorrectNumberOfArticlesError"
    ELSE IF c.total_articles.n \notin 1..(ArticlesRangeStop - 1)
    THEN "NumberOfArticlesOutOfRangeError"
    ELSE IF ~IsStr(c.encoding)
    THEN "IncorrectEncodingError"
    ELSE IF \/ ~IsInt(c.timeout) \/ IsBool(c.timeout)
            \/ c.timeout.n \notin 1..(TimeoutRangeStop - 1)
    THEN "IncorrectTimeoutError"
    ELSE IF ~IsBool(c.should_verify_certificate) \/ ~IsBool(c.headless_mode)
    THEN "IncorrectVerifyError"
    ELSE "ok"

\* variant: the test on the article count is "< 0"
validate_nonnegative(c) ==
    IF \/ ~IsList(c.seed_urls)
       \/ ~(\A i \in 1..Len(c.seed_urls.items) : IsStr(c.seed_urls.items[i]))
       \/ \E i \in 1..Len(c.seed_urls.items) : ~ContainsDomain(c.seed_urls.items[i].s)
    THEN "IncorrectSeedURLError"
    ELSE IF \/ ~IsInt(c.total_articles) \/ IsBool(c.total_articles)
            \/ c.total_articles.n < 0
    THEN "IncorrectNumberOfArticlesError"
    ELSE IF c.total_articles.n \notin 1..(ArticlesRangeStop - 1)
    THEN "NumberOfArticlesOutOfRangeError"
    ELSE IF ~IsDict(c.headers)
    THEN "IncorrectHeadersError"
    ELSE IF ~IsStr(c.encoding)
    THEN "IncorrectEncodingError"
    ELSE IF \/ ~IsInt(c.timeout) \/ IsBool(c.timeout)
            \/ c.timeout.n \notin 1..(TimeoutRangeStop - 1)
    THEN "IncorrectTimeoutError"
    ELSE IF ~IsBool(c.should_verify_certificate) \/ ~IsBool(c.headless_mode)
    THEN "IncorrectVerifyError"
    ELSE "ok"

\* variant: the tests "isinstance(..., bool)" on the two integers are missing
validate_bool_as_int(c) ==
    IF \/ ~IsList(c.seed_urls)
       \/ ~(\A i \in 1..Len(c.seed_urls.items) : IsStr(c.seed_urls.items[i]))
       \/ \E i \in 1..Len(c.seed_urls.items) : ~ContainsDomain(c.seed_urls.items[i].s)
    THEN "IncorrectSeedURLError"
    ELSE IF ~IsInt(c.total_articles) \/ c.total_articles.n <= 0
    THEN "IncorrectNumberOfArticlesError"
    ELSE IF c.total_articles.n \notin 1..(ArticlesRangeStop - 1)
    THEN "NumberOfArticlesOutOfRangeError"
    ELSE IF ~IsDict(c.headers)
    THEN "IncorrectHeadersError"
    ELSE IF ~IsStr(c.encoding)
    THEN "IncorrectEncodingError"
    ELSE IF ~IsInt(c.timeout) \/ c.timeout.n \notin 1..(TimeoutRangeStop - 1)
    THEN "IncorrectTimeoutError"
    ELSE IF ~IsBool(c.should_verify_certificate) \/ ~IsBool(c.headless_mode)
    THEN "IncorrectVerifyError"
    ELSE "ok"

validate_config_content(c) ==
    IF \/ ~IsList(c.seed_urls)
       \/ ~(\A i \in 1..Len(c.seed_urls.items) : IsStr(c.seed_urls.items[i]))
       \/ \E i \in 1..Len(c.seed_urls.items) : ~ContainsDomain(c.seed_urls.items[i].s)
    THEN "IncorrectSeedURLError"
    ELSE IF \/ ~IsInt(c.total_articles) \/ IsBool(c.total_articles)
            \/ c.total_articles.n <= 0
    THEN "IncorrectNumberOfArticlesError"
    ELSE IF c.total_articles.n \notin 1..(ArticlesRangeStop - 1)
    THEN "NumberOfArticlesOutOfRangeError"
    ELSE IF ~IsDict(c.headers)
    THEN "IncorrectHeadersError"
    ELSE IF ~IsStr(c.encoding)
    THEN "IncorrectEncodingError"
    ELSE IF \/ ~IsInt(c.timeout) \/ IsBool(c.timeout)
            \/ c.timeout.n \notin 1..(TimeoutRangeStop - 1)
    THEN "IncorrectTimeoutError"
    ELSE IF ~IsBool(c.should_verify_certificate) \/ ~IsBool(c.headless_mode)
    THEN "IncorrectVerifyError"
    ELSE "ok"

\* the seed list as the crawlers read it through get_seed_urls
SeedStrings(v) == [i \in 1..Len(v.items) |-> v.items[i].s]

(***************************************************************************)
(* Configuration files.                                                    *)
(***************************************************************************)
ValidConfig(seeds, total) ==
    ConfigDTO(ListV([i \in 1..Len(seeds) |-> StrItem(seeds[i])]), IntV(total),
              DictV, StrV, IntV(5), BoolV(TRUE), BoolV(FALSE))

\* one configuration per error kind, each with a single bad field
BadConfigs ==
    LET good == ValidConfig(<<start_url>>, 1)
    IN  { [good EXCEPT !.seed_urls = NotAList],
          [good EXCEPT !.total_articles = IntV(0)],
          [good EXCEPT !.total_articles = IntV(ArticlesRangeStop)],
          [good EXCEPT !.headers = StrV],
          [good EXCEPT !.encoding = NullV],
          [good EXCEPT !.timeout = IntV(TimeoutRangeStop)],
          [good EXCEPT !.should_verify_certificate = IntV(1)] }

\* the configurations the two entry points are run with
RunConfigs(e) ==
    { ValidConfig(seeds, total) :
          seeds \in (IF e = "main" THEN SeedLists \cup {<<>>} ELSE {<<start_url>>}),
          total \in 1..MaxT }
    \cup BadConfigs

\* the field values the validator is exercised with
SeedInputs ==
    { ListV(<<StrItem(<<ROOT>>)>>),
      ListV(<<StrItem(<<ROOT>>), StrItem(<<ROOT, "news/">>)>>),
      ListV(<<>>),
      NotAList,
      ListV(<<IntItem>>),
      ListV(<<StrItem(<<"https://example.com/">>)>>),
      ListV(<<StrItem(<<ROOT>>), StrItem(<<"https://example.com/">>)>>),
      ListV(<<StrItem(<<"https://example.com/?to=", ROOT>>)>>) }

ArticleInputs ==
    { IntV(n) : n \in {-1, 0, 1, 2, ArticlesRangeStop - 1, ArticlesRangeStop} }
    \cup {BoolV(TRUE), BoolV(FALSE), FloatV(5), StrV, NullV}

HeaderInputs == {DictV, StrV}

EncodingInputs == {StrV, NullV}

TimeoutInputs ==
    { IntV(n) : n \in {0, 1, TimeoutRangeStop - 1, TimeoutRangeStop} }
    \cup {BoolV(TRUE), StrV}

FlagInputs == {BoolV(TRUE), BoolV(FALSE), IntV(1)}

ConfigInputs ==
    { ConfigDTO(s, a, h, e, t, v, m) :
          s \in SeedInputs, a \in ArticleInputs, h \in HeaderInputs,
          e \in EncodingInputs, t \in TimeoutInputs, v \in FlagInputs,
          m \in FlagInputs }

(***************************************************************************)
(* HTMLParser: pages and the article before any field is filled            *)
(***************************************************************************)
MaxItems == 2

SeqsUpTo(S, n) == UNION { [1..k -> S] : k \in 0..n }

\* title:  the <meta property="og:title"> tag is absent, has no content
\*         attribute, has content="" or has a text as content
\* author: the element of class "author nx-flex-row-l-c", names its children
\* topics: the element of class "articles-tags__wrapper nx-flex-row"
\* date:   the element of class "date", its text in the format
\*         %H:%M, %d.%m.%Y or not
\* text:   the p / li / h2 elements of the article body
Pages ==
    { [title |-> t, author |-> a.c, names |-> a.n, topics |-> o.c,
       tags |-> o.n, date |-> d, text |-> x] :
          t \in {"absent", "nocontent", "empty", "text"},
          a \in {[c |-> "absent", n |-> <<>>]}
                \cup { [c |-> "present", n |-> n] :
                           n \in SeqsUpTo({"Ivanov", ""}, MaxItems) },
          o \in {[c |-> "absent", n |-> <<>>]}
                \cup { [c |-> "present", n |-> n] :
                           n \in SeqsUpTo({"sport", "city"}, MaxItems) },
          d \in {"absent", "wellformed", "malformed"},
          x \in SeqsUpTo({"para", " "}, MaxItems) }

NoPage == [title |-> "absent", author |-> "absent", names |-> <<>>,
           topics |-> "absent", tags |-> <<>>, date |-> "absent", text |-> <<>>]

NoArticle == [article_id |-> 0, url |-> EmptyStr, title |-> "", author |-> <<>>,
              topics |-> <<>>, date |-> "None", text |-> <<>>]

\* Article(full_url, article_id)
NewArticle(full_url, article_id) ==
    [NoArticle EXCEPT !.article_id = article_id, !.url = full_url]

(***************************************************************************)
(* The ASSETS_PATH directory and the files of the articles                 *)
(***************************************************************************)
Digits == <<"1", "2", "3", "4", "5", "6", "7", "8", "9">>

\* the pieces of the file names, in the order of their first characters
ChunkOrder ==
    <<".json", ".txt", "0">> \o Digits \o <<"_", "meta", "notes", "raw">>

\* f"{i}_raw.txt" and f"{i}_meta.json"
RawName(i) == <<Digits[i], "_", "raw", ".txt">>

MetaName(i) == <<Digits[i], "_", "meta", ".json">>

File(name, empty) == [name |-> name, empty |-> empty]

Directory(files, reset) == [kind |-> "dir", reset |-> reset, files |-> files]

\* the directory as an earlier run left it, and after prepare_environment
StaleAssets == Directory({}, FALSE)

EmptyAssets == Directory({}, TRUE)


\* '\n'.join(text)
RECURSIVE Join(_)
Join(text) ==
    IF Len(text) <= 1 THEN text
    ELSE <<Head(text), "\n">> \o Join(Tail(text))

\* p.text.strip() is not empty
NotBlank(p) == p # " "

\* ', '.join-ed text of the tags, split at ', ' again
SplitTopics(tags) == IF tags = <<>> THEN <<"">> ELSE tags

num_urls == CeilDiv(num_articles, Len(seed_urls))

\* everything but the configuration file and the position of the run
InitRest ==
    /\ num_articles = 0
    /\ seed_urls = <<>>
    /\ urls = <<>>
    /\ visited_urls = {}
    /\ cash = Absent
    /\ pc = "config"
    /\ idx = 1
    /\ examined = 0
    /\ depth = 0
    /\ runs = 0
    /\ exc = "none"
    /\ passLen = 0
    /\ failedPass = {}
    /\ failedRun = {}
    /\ cashGood = Absent
    /\ crashCash = Absent
    /\ assets = StaleAssets
    /\ requested = FALSE
    /\ fetched = <<>>
    /\ page = NoPage
    /\ response = "none"
    /\ article = NoArticle

Init ==
    /\ entry \in {"main", "main2"}
    /\ config \in RunConfigs(entry)
    /\ InitRest

(***************************************************************************)
(* main / main2: Config(...), prepare_environment, the crawler object      *)
(***************************************************************************)
ConstructConfigOk ==
    /\ pc = "config"
    /\ validate_config_content(config) = "ok"
    /\ seed_urls' = SeedStrings(config.seed_urls)
    /\ num_articles' = config.total_articles.n
    /\ pc' = "prepare"
    /\ UNCHANGED <<entry, urls, visited_urls, cash, idx, examined, depth, runs,
                   exc, passLen, failedPass, failedRun, cashGood, crashCash,
                   config, assets, requested, fetched, page, response, article>>

ConstructConfigRaise ==
    /\ pc = "config"
    /\ validate_config_content(config) # "ok"
    /\ exc' = validate_config_content(config)
    /\ pc' = "uncaught"
    /\ UNCHANGED <<entry, num_articles, seed_urls, urls, visited_urls, cash, idx,
                   examined, depth, runs, passLen, failedPass, failedRun,
                   cashGood, crashCash, config, assets, requested, fetched,
                   page, response, article>>

\* variant: the output directory is reset before the configuration is read
PrepareEnvironment_first ==
    /\ pc = "config"
    /\ ~assets.reset
    /\ assets' = EmptyAssets
    /\ UNCHANGED <<entry, num_articles, seed_urls, urls, visited_urls, cash, pc,
                   idx, examined, depth, runs, exc, passLen, failedPass,
                   failedRun, cashGood, crashCash, config, requested, fetched,
                   page, response, article>>

PrepareEnvironment ==
    /\ pc = "prepare"
    /\ assets' = EmptyAssets
    /\ pc' = "crawler"
    /\ UNCHANGED <<entry, num_articles, seed_urls, urls, visited_urls, cash, idx,
                   examined, depth, runs, exc, passLen, failedPass, failedRun,
                   cashGood, crashCash, config, requested, fetched, page,
                   response, article>>

\* Crawler.__init__ / CrawlerRecursive.__init__
NewCrawler ==
    /\ pc = "crawler"
    /\ urls' = IF entry = "main" THEN <<>> ELSE <<start_url>>
    /\ visited_urls' = {}
    /\ pc' = IF entry = "main" THEN "find_articles" ELSE "bootstrap"
    /\ UNCHANGED <<entry, num_articles, seed_urls, cash, idx, examined, depth,
                   runs, exc, passLen, failedPass, failedRun, cashGood,
                   crashCash, config, assets, requested, fetched, page,
                   response, article>>

(***************************************************************************)
(* Crawler.find_articles (bounded crawler)                                 *)
(***************************************************************************)
\* line 257: the per-seed limit, computed before the loop
FindArticlesStart ==
    /\ pc = "find_articles"
    /\ Len(seed_urls) # 0
    /\ pc' = "seeds"
    /\ UNCHANGED <<entry, num_articles, seed_urls, urls, visited_urls, cash, idx,
                   examined, depth, runs, exc, passLen, failedPass, failedRun,
                   cashGood, crashCash, config, assets, requested, fetched,
                   page, response, article>>

FindArticlesZeroDivision ==
    /\ pc = "find_articles"
    /\ Len(seed_urls) = 0
    /\ pc' = "uncaught"
    /\ exc' = "ZeroDivisionError"
    /\ UNCHANGED <<entry, num_articles, seed_urls, urls, visited_urls, cash, idx,
                   examined, depth, runs, passLen, failedPass, failedRun,
                   cashGood, crashCash, config, assets, requested, fetched,
                   page, response, article>>

\* variant: a non-ok seed page ends the crawl with an error
FetchSeedFail_abort ==
    /\ pc = "seeds" /\ idx <= Len(seed_urls)
    /\ pc' = "uncaught"
    /\ exc' = "HTTPError"
    /\ failedPass' = failedPass \cup {idx}
    /\ failedRun' = failedRun \cup {idx}
    /\ requested' = TRUE
    /\ fetched' = Append(fetched, idx)
    /\ UNCHANGED <<entry, num_articles, seed_urls, urls, visited_urls, cash, idx,
                   examined, depth, runs, passLen, cashGood, crashCash,
                   config, assets, page, response, article>>

FetchSeedFail ==
    /\ pc = "seeds" /\ idx <= Len(seed_urls)
    /\ idx' = idx + 1
    /\ failedPass' = failedPass \cup {idx}
    /\ failedRun' = failedRun \cup {idx}
    /\ UNCHANGED <<entry, num_articles, seed_urls, urls, visited_urls, cash, pc,
                   examined, depth, runs, exc, passLen, cashGood, crashCash>>
    /\ requested' = TRUE
    /\ fetched' = Append(fetched, idx)
    /\ UNCHANGED <<config, assets, page, response, article>>

FetchSeedRaise ==
    /\ pc = "seeds" /\ idx <= Len(seed_urls)
    /\ pc' = "uncaught"
    /\ exc' = "ConnectionError"
    /\ UNCHANGED <<entry, num_articles, seed_urls, urls, visited_urls, cash, idx,
                   examined, depth, runs, passLen, failedPass, failedRun,
                   cashGood, crashCash>>
    /\ requested' = TRUE
    /\ fetched' = Append(fetched, idx)
    /\ UNCHANGED <<config, assets, page, response, article>>

FetchSeedOk ==
    /\ pc = "seeds" /\ idx <= Len(seed_urls)
    /\ pc' = "seed_anchors"
    /\ examined' = 0
    /\ passLen' = Len(urls)
    /\ UNCHANGED <<entry, num_articles, seed_urls, urls, visited_urls, cash, idx,
                   depth, runs, exc, failedPass, failedRun,
                   cashGood, crashCash>>
    /\ requested' = TRUE
    /\ fetched' = Append(fetched, idx)
    /\ UNCHANGED <<config, assets, page, response, article>>

\* variant: find_all without limit=num_urls
SeedAnchor_unlimited(href) ==
    /\ pc = "seed_anchors"
    /\ examined' = examined + 1
    /\ LET extracted_url == extract_url(href, urls)
       IN  IF extracted_url = EmptyStr
           THEN UNCHANGED <<urls, pc>>
           ELSE /\ urls' = Append(urls, extracted_url)
                /\ pc' = IF Len(urls') >= num_articles THEN "done" ELSE pc
    /\ UNCHANGED <<entry, num_articles, seed_urls, visited_urls, cash, idx,
                   depth, runs, exc, passLen, failedPass, failedRun,
                   cashGood, crashCash, config, assets, requested, fetched,
                   page, response, article>>

\* variant: the loop over the anchors has no "return" at the target
SeedAnchor_no_return(href) ==
    /\ pc = "seed_anchors" /\ examined < num_urls
    /\ examined' = examined + 1
    /\ LET extracted_url == extract_url(href, urls)
       IN  IF extracted_url = EmptyStr
           THEN UNCHANGED urls
           ELSE urls' = Append(urls, extracted_url)
    /\ UNCHANGED <<entry, num_articles, seed_urls, visited_urls, cash, idx, pc,
                   depth, runs, exc, passLen, failedPass, failedRun,
                   cashGood, crashCash, config, assets, requested, fetched,
                   page, response, article>>

SeedAnchor(href) ==
    /\ pc = "seed_anchors" /\ examined < num_urls
    /\ examined' = examined + 1
    /\ LET extracted_url == extract_url(href, urls)
       IN  IF extracted_url = EmptyStr
           THEN UNCHANGED <<urls, pc>>
           ELSE /\ urls' = Append(urls, extracted_url)
                /\ pc' = IF Len(urls') >= num_articles THEN "done" ELSE pc
    /\ UNCHANGED <<entry, num_articles, seed_urls, visited_urls, cash, idx,
                   depth, runs, exc, passLen, failedPass, failedRun,
                   cashGood, crashCash>>
    /\ UNCHANGED <<config, assets, requested, fetched, page, response, article>>

EndSeed ==
    /\ pc = "seed_anchors"
    /\ pc' = "seeds"
    /\ idx' = idx + 1
    /\ UNCHANGED <<entry, num_articles, seed_urls, urls, visited_urls, cash,
                   examined, depth, runs, exc, passLen, failedPass, failedRun,
                   cashGood, crashCash>>
    /\ UNCHANGED <<config, assets, requested, fetched, page, response, article>>

SeedsExhausted ==
    /\ pc = "seeds" /\ idx > Len(seed_urls)
    /\ pc' = "returned"
    /\ UNCHANGED <<entry, num_articles, seed_urls, urls, visited_urls, cash, idx,
                   examined, depth, runs, exc, passLen, failedPass, failedRun,
                   cashGood, crashCash>>
    /\ UNCHANGED <<config, assets, requested, fetched, page, response, article>>

(***************************************************************************)
(* main2: bootstrap of the checkpoint file                                 *)
(***************************************************************************)
BootstrapSkip ==
    /\ pc = "bootstrap" /\ cash.state # "absent"
    /\ pc' = "enter"
    /\ UNCHANGED <<entry, num_articles, seed_urls, urls, visited_urls, cash, idx,
                   examined, depth, runs, exc, passLen, failedPass, failedRun,
                   cashGood, crashCash>>
    /\ UNCHANGED <<config, assets, requested, fetched, page, response, article>>

\* open(..., 'w') creates the file empty
BootstrapOpen ==
    /\ pc = "bootstrap" /\ cash.state = "absent"
    /\ cash' = Truncated
    /\ pc' = "bootstrap_dump"
    /\ UNCHANGED <<entry, num_articles, seed_urls, urls, visited_urls, idx,
                   examined, depth, runs, exc, passLen, failedPass, failedRun,
                   cashGood, crashCash>>
    /\ UNCHANGED <<config, assets, requested, fetched, page, response, article>>

BootstrapDump ==
    /\ pc = "bootstrap_dump"
    /\ cash' = FileOf(urls, {})
    /\ cashGood' = cash'
    /\ pc' = "enter"
    /\ UNCHANGED <<entry, num_articles, seed_urls, urls, visited_urls, idx,
                   examined, depth, runs, exc, passLen, failedPass, failedRun,
                   crashCash>>
    /\ UNCHANGED <<config, assets, requested, fetched, page, response, article>>

(***************************************************************************)
(* CrawlerRecursive.find_articles: entry, with the reload of the file      *)
(***************************************************************************)
LoadCheckpoint ==
    /\ pc = "enter" /\ Len(urls) = 1 /\ cash.state = "complete"
    /\ urls' = cash.urls
    /\ visited_urls' = cash.visited_urls
    /\ pc' = "loop"
    /\ idx' = 1
    /\ passLen' = Len(urls')
    /\ failedPass' = {}
    /\ UNCHANGED <<entry, num_articles, seed_urls, cash, examined, depth, runs,
                   exc, failedRun, cashGood, crashCash>>
    /\ UNCHANGED <<config, assets, requested, fetched, page, response, article>>

\* json.load of an empty or partly written file raises
LoadCheckpointFails ==
    /\ pc = "enter" /\ Len(urls) = 1 /\ cash.state # "complete"
    /\ pc' = "uncaught"
    /\ exc' = "JSONDecodeError"
    /\ UNCHANGED <<entry, num_articles, seed_urls, urls, visited_urls, cash, idx,
                   examined, depth, runs, passLen, failedPass, failedRun,
                   cashGood, crashCash>>
    /\ UNCHANGED <<config, assets, requested, fetched, page, response, article>>

EnterNoLoad ==
    /\ pc = "enter" /\ Len(urls) # 1
    /\ pc' = "loop"
    /\ idx' = 1
    /\ passLen' = Len(urls)
    /\ failedPass' = {}
    /\ UNCHANGED <<entry, num_articles, seed_urls, urls, visited_urls, cash,
                   examined, depth, runs, exc, failedRun, cashGood, crashCash>>
    /\ UNCHANGED <<config, assets, requested, fetched, page, response, article>>

(***************************************************************************)
(* CrawlerRecursive.find_articles: the loop over self.urls                 *)
(***************************************************************************)
SkipVisited ==
    /\ pc = "loop" /\ idx <= Len(urls)
    /\ urls[idx] \in visited_urls
    /\ idx' = idx + 1
    /\ UNCHANGED <<entry, num_articles, seed_urls, urls, visited_urls, cash, pc,
                   examined, depth, runs, exc, passLen, failedPass, failedRun,
                   cashGood, crashCash>>
    /\ UNCHANGED <<config, assets, requested, fetched, page, response, article>>

\* variant: a failed fetch marks the URL visited
FetchFail_marks_visited ==
    /\ pc = "loop" /\ idx <= Len(urls)
    /\ urls[idx] \notin visited_urls
    /\ idx' = idx + 1
    /\ visited_urls' = visited_urls \cup {urls[idx]}
    /\ failedPass' = failedPass \cup {idx}
    /\ failedRun' = failedRun \cup {idx}
    /\ UNCHANGED <<entry, num_articles, seed_urls, urls, cash, pc,
                   examined, depth, runs, exc, passLen, cashGood, crashCash>>
    /\ requested' = TRUE
    /\ UNCHANGED <<config, assets, fetched, page, response, article>>

\* variant: a failed fetch is tried again at once
FetchFail_retry ==
    /\ pc = "loop" /\ idx <= Len(urls)
    /\ urls[idx] \notin visited_urls
    /\ idx' = idx
    /\ failedPass' = failedPass \cup {idx}
    /\ failedRun' = failedRun \cup {idx}
    /\ UNCHANGED <<entry, num_articles, seed_urls, urls, visited_urls, cash, pc,
                   examined, depth, runs, exc, passLen, cashGood, crashCash>>
    /\ requested' = TRUE
    /\ UNCHANGED <<config, assets, fetched, page, response, article>>

FetchFail ==
    /\ pc = "loop" /\ idx <= Len(urls)
    /\ urls[idx] \notin visited_urls
    /\ idx' = idx + 1
    /\ failedPass' = failedPass \cup {idx}
    /\ failedRun' = failedRun \cup {idx}
    /\ UNCHANGED <<entry, num_articles, seed_urls, urls, visited_urls, cash, pc,
                   examined, depth, runs, exc, passLen, cashGood, crashCash>>
    /\ requested' = TRUE
    /\ UNCHANGED <<config, assets, fetched, page, response, article>>

FetchRaise ==
    /\ pc = "loop" /\ idx <= Len(urls)
    /\ urls[idx] \notin visited_urls
    /\ pc' = "uncaught"
    /\ exc' = "ConnectionError"
    /\ UNCHANGED <<entry, num_articles, seed_urls, urls, visited_urls, cash, idx,
                   examined, depth, runs, passLen, failedPass, failedRun,
                   cashGood, crashCash>>
    /\ requested' = TRUE
    /\ UNCHANGED <<config, assets, fetched, page, response, article>>

FetchOk ==
    /\ pc = "loop" /\ idx <= Len(urls)
    /\ urls[idx] \notin visited_urls
    /\ pc' = IF urls[idx] = start_url THEN "sections" ELSE "containers"
    /\ UNCHANGED <<entry, num_articles, seed_urls, urls, visited_urls, cash, idx,
                   examined, depth, runs, exc, passLen, failedPass, failedRun,
                   cashGood, crashCash>>
    /\ requested' = TRUE
    /\ UNCHANGED <<config, assets, fetched, page, response, article>>

\* the body shared by both anchor loops: lines 416-419 and 424-427
Enqueue(href) ==
    LET extracted_url == extract_url(href, urls)
    IN  urls' = IF extracted_url = EmptyStr \/ extracted_url \in visited_urls
                THEN urls
                ELSE Append(urls, extracted_url)

SectionAnchor(href) ==
    /\ pc = "sections"
    /\ Enqueue(href)
    /\ UNCHANGED <<entry, num_articles, seed_urls, visited_urls, cash, pc, idx,
                   examined, depth, runs, exc, passLen, failedPass, failedRun,
                   cashGood, crashCash>>
    /\ UNCHANGED <<config, assets, requested, fetched, page, response, article>>

EndSections ==
    /\ pc = "sections"
    /\ pc' = "containers"
    /\ UNCHANGED <<entry, num_articles, seed_urls, urls, visited_urls, cash, idx,
                   examined, depth, runs, exc, passLen, failedPass, failedRun,
                   cashGood, crashCash>>
    /\ UNCHANGED <<config, assets, requested, fetched, page, response, article>>

BeginContainer ==
    /\ pc = "containers"
    /\ pc' = "anchors"
    /\ UNCHANGED <<entry, num_articles, seed_urls, urls, visited_urls, cash, idx,
                   examined, depth, runs, exc, passLen, failedPass, failedRun,
                   cashGood, crashCash>>
    /\ UNCHANGED <<config, assets, requested, fetched, page, response, article>>

ContainerAnchor(href) ==
    /\ pc = "anchors"
    /\ Enqueue(href)
    /\ UNCHANGED <<entry, num_articles, seed_urls, visited_urls, cash, pc, idx,
                   examined, depth, runs, exc, passLen, failedPass, failedRun,
                   cashGood, crashCash>>
    /\ UNCHANGED <<config, assets, requested, fetched, page, response, article>>

\* find_all('a') also yields anchors without href: None.startswith raises
ContainerAnchorNoHref ==
    /\ pc = "anchors"
    /\ pc' = "uncaught"
    /\ exc' = "AttributeError"
    /\ UNCHANGED <<entry, num_articles, seed_urls, urls, visited_urls, cash, idx,
                   examined, depth, runs, passLen, failedPass, failedRun,
                   cashGood, crashCash>>
    /\ UNCHANGED <<config, assets, requested, fetched, page, response, article>>

\* lines 429-432, reached after the anchors of one container
QuotaReached ==
    /\ pc = "anchors"
    /\ Len(urls) - 1 >= num_articles
    /\ IF InList(start_url, urls)
       THEN /\ urls' = Take(RemoveFirst(urls, start_url), num_articles)
            /\ pc' = "done"
            /\ exc' = exc
       ELSE /\ urls' = urls
            /\ pc' = "uncaught"
            /\ exc' = "ValueError"
    /\ UNCHANGED <<entry, num_articles, seed_urls, visited_urls, cash, idx,
                   examined, depth, runs, passLen, failedPass, failedRun,
                   cashGood, crashCash>>
    /\ UNCHANGED <<config, assets, requested, fetched, page, response, article>>

NextContainer ==
    /\ pc = "anchors"
    /\ Len(urls) - 1 < num_articles
    /\ pc' = "containers"
    /\ UNCHANGED <<entry, num_articles, seed_urls, urls, visited_urls, cash, idx,
                   examined, depth, runs, exc, passLen, failedPass, failedRun,
                   cashGood, crashCash>>
    /\ UNCHANGED <<config, assets, requested, fetched, page, response, article>>

\* lines 434-440: mark visited, read the file, reopen it with mode 'w'
SaveOpen ==
    /\ pc = "containers"
    /\ visited_urls' = visited_urls \cup {urls[idx]}
    /\ IF cash.state = "complete"
       THEN /\ cash' = Truncated
            /\ pc' = "dump"
            /\ exc' = exc
       ELSE /\ cash' = cash
            /\ pc' = "uncaught"
            /\ exc' = "JSONDecodeError"
    /\ UNCHANGED <<entry, num_articles, seed_urls, urls, idx, examined, depth,
                   runs, passLen, failedPass, failedRun, cashGood, crashCash>>
    /\ UNCHANGED <<config, assets, requested, fetched, page, response, article>>

\* variant: the file is written with the visited set as it was before line 434
SaveDump_stale ==
    /\ pc = "dump"
    /\ cash' = FileOf(urls, visited_urls \ {urls[idx]})
    /\ cashGood' = cash'
    /\ idx' = idx + 1
    /\ pc' = "loop"
    /\ UNCHANGED <<entry, num_articles, seed_urls, urls, visited_urls, examined,
                   depth, runs, exc, passLen, failedPass, failedRun, crashCash>>
    /\ UNCHANGED <<config, assets, requested, fetched, page, response, article>>

\* variant: the file keeps only the URLs that are still to be processed
SaveDump_pending_only ==
    /\ pc = "dump"
    /\ cash' = FileOf(RemoveFirst(urls, urls[idx]), visited_urls)
    /\ cashGood' = cash'
    /\ idx' = idx + 1
    /\ pc' = "loop"
    /\ UNCHANGED <<entry, num_articles, seed_urls, urls, visited_urls, examined,
                   depth, runs, exc, passLen, failedPass, failedRun, crashCash>>
    /\ UNCHANGED <<config, assets, requested, fetched, page, response, article>>

\* line 442 and the close of the file
SaveDump ==
    /\ pc = "dump"
    /\ cash' = FileOf(urls, visited_urls)
    /\ cashGood' = cash'
    /\ idx' = idx + 1
    /\ pc' = "loop"
    /\ UNCHANGED <<entry, num_articles, seed_urls, urls, visited_urls, examined,
                   depth, runs, exc, passLen, failedPass, failedRun, crashCash>>
    /\ UNCHANGED <<config, assets, requested, fetched, page, response, article>>

(***************************************************************************)
(* CrawlerRecursive.find_articles: lines 444-445, after the loop           *)
(***************************************************************************)
Recurse ==
    /\ pc = "loop" /\ idx > Len(urls)
    /\ Len(urls) - 1 < num_articles
    /\ depth < MaxDepth
    /\ depth' = depth + 1
    /\ pc' = "enter"
    /\ UNCHANGED <<entry, num_articles, seed_urls, urls, visited_urls, cash, idx,
                   examined, runs, exc, passLen, failedPass, failedRun,
                   cashGood, crashCash>>
    /\ UNCHANGED <<config, assets, requested, fetched, page, response, article>>

RecursionLimit ==
    /\ pc = "loop" /\ idx > Len(urls)
    /\ Len(urls) - 1 < num_articles
    /\ depth = MaxDepth
    /\ pc' = "uncaught"
    /\ exc' = "RecursionError"
    /\ UNCHANGED <<entry, num_articles, seed_urls, urls, visited_urls, cash, idx,
                   examined, depth, runs, passLen, failedPass, failedRun,
                   cashGood, crashCash>>
    /\ UNCHANGED <<config, assets, requested, fetched, page, response, article>>

Return ==
    /\ pc = "loop" /\ idx > Len(urls)
    /\ Len(urls) - 1 >= num_articles
    /\ pc' = "returned"
    /\ UNCHANGED <<entry, num_articles, seed_urls, urls, visited_urls, cash, idx,
                   examined, depth, runs, exc, passLen, failedPass, failedRun,
                   cashGood, crashCash>>
    /\ UNCHANGED <<config, assets, requested, fetched, page, response, article>>

(***************************************************************************)
(* CorpusManager (lab_6_pipeline): validation of the dataset directory     *)
(***************************************************************************)
MaxId == 2

Rank(chunk) == CHOOSE i \in 1..Len(ChunkOrder) : ChunkOrder[i] = chunk

\* a < b for two file names, as list.sort() compares strings
RECURSIVE NameLess(_, _)
NameLess(a, b) ==
    IF a = <<>> THEN b # <<>>
    ELSE IF b = <<>> THEN FALSE
    ELSE IF Head(a) = Head(b) THEN NameLess(Tail(a), Tail(b))
    ELSE Rank(Head(a)) < Rank(Head(b))

\* the names of a set, sorted
RECURSIVE SortedNames(_)
SortedNames(names) ==
    IF names = {} THEN <<>>
    ELSE LET first == CHOOSE a \in names : \A b \in names : a = b \/ NameLess(a, b)
         IN  <<first>> \o SortedNames(names \ {first})

HasRaw(name) == "raw" \in Range(name)

HasMeta(name) == "meta" \in Range(name)

\* some pair of zip(names, check) differs
ZipDiffers(names, check) ==
    \E i \in 1..Len(names) : i <= Len(check) /\ names[i] # check[i]

\* variant: the sizes of the files are not looked at
validate_dataset_sizes_ignored(d) ==
    IF d.kind = "missing" THEN "FileNotFoundError"
    ELSE IF d.kind # "dir" THEN "NotADirectoryError"
    ELSE IF d.files = {} THEN "EmptyDirectoryError"
    ELSE LET raw_names == SortedNames({ f.name : f \in { g \in d.files : HasRaw(g.name) } })
             meta_names == SortedNames({ f.name : f \in { g \in d.files : HasMeta(g.name) } })
             raw_check == SortedNames({ RawName(i) : i \in 1..Len(raw_names) })
             meta_check == SortedNames({ MetaName(i) : i \in 1..Len(meta_names) })
         IN  IF Len(raw_names) # Len(meta_names)
             THEN "InconsistentDatasetError: Number of meta and raw files is not equal."
             ELSE IF ZipDiffers(raw_names, raw_check) \/ ZipDiffers(meta_names, meta_check)
             THEN "InconsistentDatasetError: IDs contain slips."
             ELSE "ok"

\* CorpusManager._validate_dataset: the error it raises, "ok" when none
validate_dataset(d) ==
    IF d.kind = "missing" THEN "FileNotFoundError"
    ELSE IF d.kind # "dir" THEN "NotADirectoryError"
    ELSE IF d.files = {} THEN "EmptyDirectoryError"
    ELSE LET raw_names == SortedNames({ f.name : f \in { g \in d.files : HasRaw(g.name) } })
             meta_names == SortedNames({ f.name : f \in { g \in d.files : HasMeta(g.name) } })
             raw_check == SortedNames({ RawName(i) : i \in 1..Len(raw_names) })
             meta_check == SortedNames({ MetaName(i) : i \in 1..Len(meta_names) })
         IN  IF Len(raw_names) # Len(meta_names)
             THEN "InconsistentDatasetError: Number of meta and raw files is not equal."
             ELSE IF \E f \in d.files : f.empty /\ (HasRaw(f.name) \/ HasMeta(f.name))
             THEN "InconsistentDatasetError: The file is empty."
             ELSE IF ZipDiffers(raw_names, raw_check) \/ ZipDiffers(meta_names, meta_check)
             THEN "InconsistentDatasetError: IDs contain slips."
             ELSE "ok"

\* the file names a dataset directory is given
DatasetNames ==
    { RawName(i) : i \in 1..MaxId } \cup { MetaName(i) : i \in 1..MaxId }
    \cup { <<"notes", ".txt">>, <<"0", "_", "raw", ".txt">> }

\* a path that does not exist, a path to a regular file, and the directories
DatasetInputs ==
    { [kind |-> "missing", reset |-> FALSE, files |-> {}],
      [kind |-> "file", reset |-> FALSE, files |-> {}] }
    \cup UNION { { Directory({ File(name, name \in empties) : name \in names }, FALSE) :
                       empties \in SUBSET names } :
                     names \in SUBSET DatasetNames }

InitCorpus ==
    /\ entry = "main"
    /\ config = ValidConfig(<<start_url>>, 1)
    /\ num_articles = 1
    /\ seed_urls = <<start_url>>
    /\ urls = <<>>
    /\ visited_urls = {}
    /\ cash = Absent
    /\ pc = "corpus"
    /\ idx = 1
    /\ examined = 0
    /\ depth = 0
    /\ runs = 0
    /\ exc = "none"
    /\ passLen = 0
    /\ failedPass = {}
    /\ failedRun = {}
    /\ cashGood = Absent
    /\ crashCash = Absent
    /\ assets \in DatasetInputs
    /\ requested = FALSE
    /\ fetched = <<>>
    /\ page = NoPage
    /\ response = "none"
    /\ article = NoArticle

\* _validate_dataset returns and CorpusManager(path) scans the raw files: the
\* storage is scan_dataset(assets), the directory is left as it was
ConstructCorpusOk ==
    /\ pc = "corpus"
    /\ validate_dataset(assets) = "ok"
    /\ pc' = "validated"
    /\ UNCHANGED <<entry, num_articles, seed_urls, urls, visited_urls, cash, idx,
                   examined, depth, runs, exc, passLen, failedPass, failedRun,
                   cashGood, crashCash, config, assets, requested, fetched,
                   page, response, article>>

ConstructCorpusRaise ==
    /\ pc = "corpus"
    /\ validate_dataset(assets) # "ok"
    /\ exc' = validate_dataset(assets)
    /\ pc' = "uncaught"
    /\ UNCHANGED <<entry, num_articles, seed_urls, urls, visited_urls, cash, idx,
                   examined, depth, runs, passLen, failedPass, failedRun,
                   cashGood, crashCash, config, assets, requested, fetched,
                   page, response, article>>

(***************************************************************************)
(* lab_6_pipeline main: the files the two pipelines write into the dataset *)
(* directory, idx being the position in the sorted storage                 *)
(***************************************************************************)
\* the names of the CLEANED and UDPIPE_CONLLU artifacts and of the picture
CleanedName(i) == <<Digits[i], "_", "cleaned", ".txt">>

ConlluName(i) == <<Digits[i], "_", "udpipe_conllu", ".conllu">>

ImageName(i) == <<Digits[i], "_", "image", ".png">>

\* open(name, "w"), a write and the close of the file
WriteFile(d, name, empty) ==
    [d EXCEPT !.files = { f \in @ : f.name # name } \cup {File(name, empty)}]

\* CorpusManager._scan_dataset: the ids of the storage
scan_dataset(d) ==
    { i \in 1..Len(Digits) : \E f \in d.files : f.name = RawName(i) }

\* UDPipeAnalyzer.to_conllu for the article i: the annotation and "\n"
to_conllu(d, i) == WriteFile(d, ConlluName(i), FALSE)

\* TextProcessingPipeline.run, first loop: to_cleaned(article)
ToCleaned ==
    /\ pc \in {"validated", "to_cleaned"}
    /\ idx <= Cardinality(scan_dataset(assets))
    /\ \E empty \in BOOLEAN : assets' = WriteFile(assets, CleanedName(idx), empty)
    /\ idx' = idx + 1
    /\ pc' = "to_cleaned"
    /\ UNCHANGED <<entry, num_articles, seed_urls, urls, visited_urls, cash,
                   examined, depth, runs, exc, passLen, failedPass, failedRun,
                   cashGood, crashCash, config, requested, fetched, page,
                   response, article>>

\* the texts of the storage are analyzed
Analyze ==
    /\ pc \in {"validated", "to_cleaned"}
    /\ idx > Cardinality(scan_dataset(assets))
    /\ idx' = 1
    /\ pc' = "to_conllu"
    /\ UNCHANGED <<entry, num_articles, seed_urls, urls, visited_urls, cash,
                   examined, depth, runs, exc, passLen, failedPass, failedRun,
                   cashGood, crashCash, config, assets, requested, fetched,
                   page, response, article>>

\* TextProcessingPipeline.run, second loop: set_conllu_info and to_conllu
ToConllu ==
    /\ pc = "to_conllu"
    /\ idx <= Cardinality(scan_dataset(assets))
    /\ assets' = to_conllu(assets, idx)
    /\ idx' = idx + 1
    /\ UNCHANGED <<entry, num_articles, seed_urls, urls, visited_urls, cash, pc,
                   examined, depth, runs, exc, passLen, failedPass, failedRun,
                   cashGood, crashCash, config, requested, fetched, page,
                   response, article>>

\* TextProcessingPipeline.run returns, main builds the POSFrequencyPipeline
TextProcessingReturns ==
    /\ pc = "to_conllu"
    /\ idx > Cardinality(scan_dataset(assets))
    /\ idx' = 1
    /\ pc' = "pos_frequency"
    /\ UNCHANGED <<entry, num_articles, seed_urls, urls, visited_urls, cash,
                   examined, depth, runs, exc, passLen, failedPass, failedRun,
                   cashGood, crashCash, config, assets, requested, fetched,
                   page, response, article>>

\* POSFrequencyPipeline.run for one article: to_meta rewrites the meta file,
\* visualize saves the picture
PosFrequency ==
    /\ pc = "pos_frequency"
    /\ idx <= Cardinality(scan_dataset(assets))
    /\ assets' = WriteFile(WriteFile(assets, MetaName(idx), FALSE),
                           ImageName(idx), FALSE)
    /\ idx' = idx + 1
    /\ UNCHANGED <<entry, num_articles, seed_urls, urls, visited_urls, cash, pc,
                   examined, depth, runs, exc, passLen, failedPass, failedRun,
                   cashGood, crashCash, config, requested, fetched, page,
                   response, article>>

\* POSFrequencyPipeline.run returns and so does main
PipelineReturns ==
    /\ pc = "pos_frequency"
    /\ idx > Cardinality(scan_dataset(assets))
    /\ pc' = "pipeline_done"
    /\ UNCHANGED <<entry, num_articles, seed_urls, urls, visited_urls, cash, idx,
                   examined, depth, runs, exc, passLen, failedPass, failedRun,
                   cashGood, crashCash, config, assets, requested, fetched,
                   page, response, article>>

NextCorpus ==
    \/ ConstructCorpusOk
    \/ ConstructCorpusRaise
    \/ ToCleaned
    \/ Analyze
    \/ ToConllu
    \/ TextProcessingReturns
    \/ PosFrequency
    \/ PipelineReturns

SpecCorpus == InitCorpus /\ [][NextCorpus]_vars

(***************************************************************************)
(* Interruption of main2 during the crawl, and a new run: the memory is    *)
(* that of a fresh CrawlerRecursive, the file is what the old run left.    *)
(***************************************************************************)
Interruptible ==
    {"prepare", "crawler", "bootstrap", "bootstrap_dump", "enter", "loop",
     "sections", "containers", "anchors", "dump"}

InFindArticles == {"enter", "loop", "sections", "containers", "anchors", "dump"}

Crash ==
    /\ entry = "main2" /\ pc \in Interruptible
    /\ runs < MaxRuns
    /\ runs' = runs + 1
    /\ num_articles' = 0
    /\ seed_urls' = <<>>
    /\ urls' = <<>>
    /\ visited_urls' = {}
    /\ pc' = "config"
    /\ idx' = 1
    /\ depth' = 0
    /\ passLen' = 0
    /\ failedPass' = {}
    /\ failedRun' = {}
    /\ crashCash' = cashGood
    /\ requested' = FALSE
    /\ UNCHANGED <<entry, cash, examined, exc, cashGood, config, assets, fetched,
                   page, response, article>>

Next ==
    \/ ConstructConfigOk
    \/ ConstructConfigRaise
    \/ PrepareEnvironment
    \/ NewCrawler
    \/ FindArticlesStart
    \/ FindArticlesZeroDivision
    \/ BootstrapSkip
    \/ BootstrapOpen
    \/ BootstrapDump
    \/ LoadCheckpoint
    \/ LoadCheckpointFails
    \/ EnterNoLoad
    \/ SkipVisited
    \/ FetchFail
    \/ FetchRaise
    \/ FetchOk
    \/ \E href \in Hrefs : SectionAnchor(href)
    \/ EndSections
    \/ BeginContainer
    \/ \E href \in Hrefs : ContainerAnchor(href)
    \/ ContainerAnchorNoHref
    \/ QuotaReached
    \/ NextContainer
    \/ SaveOpen
    \/ SaveDump
    \/ Recurse
    \/ RecursionLimit
    \/ Return
    \/ Crash
    \/ FetchSeedFail
    \/ FetchSeedRaise
    \/ FetchSeedOk
    \/ \E href \in Hrefs : SeedAnchor(href)
    \/ EndSeed
    \/ SeedsExhausted

Spec == Init /\ [][Next]_vars

(***************************************************************************)
(* The validator alone, over the field values of ConfigInputs.             *)
(***************************************************************************)
(***************************************************************************)
(* HTMLParser.parse on one article URL                                     *)
(***************************************************************************)
InitParser ==
    /\ entry = "main"
    /\ config = ValidConfig(<<start_url>>, 1)
    /\ num_articles = 1
    /\ seed_urls = <<start_url>>
    /\ urls = << <<ROOT, "a">> >>
    /\ visited_urls = {}
    /\ cash = Absent
    /\ pc = "parse"
    /\ idx = 1
    /\ examined = 1
    /\ depth = 0
    /\ runs = 0
    /\ exc = "none"
    /\ passLen = 0
    /\ failedPass = {}
    /\ failedRun = {}
    /\ cashGood = Absent
    /\ crashCash = Absent
    /\ assets = EmptyAssets
    /\ requested = FALSE
    /\ fetched = <<1>>
    /\ page \in Pages
    /\ response = "none"
    /\ article = NewArticle(urls[1], 1)

\* make_request returns a response with ok = True
ParseFetchOk ==
    /\ pc = "parse"
    /\ response' = "ok"
    /\ requested' = TRUE
    /\ pc' = "fill_text"
    /\ UNCHANGED <<entry, num_articles, seed_urls, urls, visited_urls, cash, idx,
                   examined, depth, runs, exc, passLen, failedPass, failedRun,
                   cashGood, crashCash, config, assets, fetched, page, article>>

\* variant: parse returns False on a response that is not ok
ParseFetchFail_checked ==
    /\ pc = "parse"
    /\ response' = "fail"
    /\ requested' = TRUE
    /\ pc' = "returned"
    /\ UNCHANGED <<entry, num_articles, seed_urls, urls, visited_urls, cash, idx,
                   examined, depth, runs, exc, passLen, failedPass, failedRun,
                   cashGood, crashCash, config, assets, fetched, page, article>>

\* make_request returns a response with ok = False: parse goes on the same
ParseFetchFail ==
    /\ pc = "parse"
    /\ response' = "fail"
    /\ requested' = TRUE
    /\ pc' = "fill_text"
    /\ UNCHANGED <<entry, num_articles, seed_urls, urls, visited_urls, cash, idx,
                   examined, depth, runs, exc, passLen, failedPass, failedRun,
                   cashGood, crashCash, config, assets, fetched, page, article>>

ParseFetchRaise ==
    /\ pc = "parse"
    /\ requested' = TRUE
    /\ pc' = "uncaught"
    /\ exc' = "ConnectionError"
    /\ UNCHANGED <<entry, num_articles, seed_urls, urls, visited_urls, cash, idx,
                   examined, depth, runs, passLen, failedPass, failedRun,
                   cashGood, crashCash, config, assets, fetched, page, response,
                   article>>

\* HTMLParser._fill_article_with_text: the article a on the page p
fill_article_with_text(a, p) ==
    [a EXCEPT !.text = Join(SelectSeq(p.text, NotBlank))]

FillText ==
    /\ pc = "fill_text"
    /\ article' = fill_article_with_text(article, page)
    /\ pc' = "fill_meta"
    /\ UNCHANGED <<entry, num_articles, seed_urls, urls, visited_urls, cash, idx,
                   examined, depth, runs, exc, passLen, failedPass, failedRun,
                   cashGood, crashCash, config, assets, requested, fetched,
                   page, response>>

\* a text of a child of the author container that is a name
IsName(text) == text # ""

\* variant: the blank texts are dropped before the list is tested
MetaBeforeDate_names_only(a, p) ==
    [a EXCEPT
       !.title = IF p.title = "text" THEN "title" ELSE "NOT FOUND",
       !.author = LET found == IF p.author = "present"
                               THEN SelectSeq(p.names, IsName) ELSE a.author
                  IN  IF found = <<>> THEN <<"NOT FOUND">> ELSE found,
       !.topics = IF p.topics = "absent" THEN <<>> ELSE SplitTopics(p.tags)]

\* the fields after lines 335-351, the title tag being there
MetaBeforeDate(a, p) ==
    [a EXCEPT
       !.title = IF p.title = "text" THEN "title" ELSE "NOT FOUND",
       !.author = LET found == IF p.author = "present" THEN p.names ELSE a.author
                  IN  IF found = <<>> THEN <<"NOT FOUND">> ELSE found,
       !.topics = IF p.topics = "absent" THEN <<>> ELSE SplitTopics(p.tags)]

\* strptime(date_str, '%H:%M, %d.%m.%Y'), "ValueError" when it raises
unify_date_format(date) == IF date = "wellformed" THEN "parsed" ELSE "ValueError"

\* variant: a page without the title tag gets the title "NOT FOUND"
FillMeta_title_guarded ==
    /\ pc = "fill_meta"
    /\ IF page.date = "absent"
       THEN /\ article' = [MetaBeforeDate(article, page) EXCEPT !.date = "now"]
            /\ pc' = "parsed"
            /\ exc' = exc
       ELSE IF unify_date_format(page.date) = "ValueError"
       THEN /\ article' = MetaBeforeDate(article, page)
            /\ pc' = "uncaught"
            /\ exc' = "ValueError"
       ELSE /\ article' = [MetaBeforeDate(article, page)
                              EXCEPT !.date = unify_date_format(page.date)]
            /\ pc' = "parsed"
            /\ exc' = exc
    /\ UNCHANGED <<entry, num_articles, seed_urls, urls, visited_urls, cash, idx,
                   examined, depth, runs, passLen, failedPass, failedRun,
                   cashGood, crashCash, config, assets, requested, fetched,
                   page, response>>

\* HTMLParser._fill_article_with_meta_information: the article as the method
\* leaves it and the exception it raises, "none" when it returns
fill_article_with_meta_information(a, p) ==
    IF p.title = "absent"
    THEN [article |-> a, exc |-> "AttributeError"]
    ELSE IF p.date = "absent"
    THEN [article |-> [MetaBeforeDate(a, p) EXCEPT !.date = "now"], exc |-> "none"]
    ELSE IF unify_date_format(p.date) = "ValueError"
    THEN [article |-> MetaBeforeDate(a, p), exc |-> "ValueError"]
    ELSE [article |-> [MetaBeforeDate(a, p) EXCEPT !.date = unify_date_format(p.date)],
          exc |-> "none"]

\* line 381, then the return of parse
FillMeta ==
    /\ pc = "fill_meta"
    /\ LET filled == fill_article_with_meta_information(article, page)
       IN  /\ article' = filled.article
           /\ IF filled.exc = "none"
              THEN pc' = "parsed" /\ exc' = exc
              ELSE pc' = "uncaught" /\ exc' = filled.exc
    /\ UNCHANGED <<entry, num_articles, seed_urls, urls, visited_urls, cash, idx,
                   examined, depth, runs, passLen, failedPass, failedRun,
                   cashGood, crashCash, config, assets, requested, fetched,
                   page, response>>

NextParser ==
    \/ ParseFetchOk
    \/ ParseFetchFail
    \/ ParseFetchRaise
    \/ FillText
    \/ FillMeta

SpecParser == InitParser /\ [][NextParser]_vars

(***************************************************************************)
(* main / main2: the loop over crawler.urls, article.article_id being the  *)
(* number of the last article that was begun                               *)
(***************************************************************************)
\* the pages the article URLs are given
ArticlePages ==
    { [title |-> "text", author |-> "present", names |-> <<"Ivanov">>,
       topics |-> "present", tags |-> <<"sport", "city">>,
       date |-> "wellformed", text |-> <<"para", "para">>],
      [title |-> "nocontent", author |-> "absent", names |-> <<>>,
       topics |-> "absent", tags |-> <<>>, date |-> "absent", text |-> <<" ">>],
      [title |-> "empty", author |-> "present", names |-> <<"Ivanov", "">>,
       topics |-> "present", tags |-> <<>>, date |-> "absent",
       text |-> <<"para">>],
      [title |-> "absent", author |-> "present", names |-> <<"Ivanov">>,
       topics |-> "absent", tags |-> <<>>, date |-> "wellformed",
       text |-> <<"para">>],
      [title |-> "text", author |-> "absent", names |-> <<>>,
       topics |-> "present", tags |-> <<"sport">>, date |-> "malformed",
       text |-> <<"para">>] }

\* HTMLParser(full_url, article_id, config).parse() on the page p, the
\* request being answered: the article of the parser and the exception
parse(full_url, article_id, p) ==
    fill_article_with_meta_information(
        fill_article_with_text(NewArticle(full_url, article_id), p), p)

\* find_articles has returned: its frame is gone, and with it the record
\* kept of its passes; the entry point is at the head of its loop
FindArticlesReturns ==
    /\ pc \in {"done", "returned"}
    /\ pc' = "articles"
    /\ idx' = 1
    /\ examined' = 0
    /\ depth' = 0
    /\ passLen' = 0
    /\ failedPass' = {}
    /\ failedRun' = {}
    /\ cashGood' = Absent
    /\ crashCash' = Absent
    /\ UNCHANGED <<entry, num_articles, seed_urls, urls, visited_urls, cash, runs,
                   exc, config, assets, requested, fetched, page, response,
                   article>>

AtArticleLoop == pc = "articles"

\* variant: parse returns a value that is not an Article, nothing is written
ParseReturns_not_article ==
    /\ AtArticleLoop
    /\ article.article_id < Len(urls)
    /\ \E p \in ArticlePages :
           LET parsed == parse(urls[article.article_id + 1],
                               article.article_id + 1, p)
           IN  /\ parsed.exc = "none"
               /\ article' = parsed.article
    /\ requested' = TRUE
    /\ pc' = "articles"
    /\ UNCHANGED <<entry, num_articles, seed_urls, urls, visited_urls, cash, idx,
                   examined, depth, runs, exc, passLen, failedPass, failedRun,
                   cashGood, crashCash, config, assets, fetched, page,
                   response>>

\* parser.parse() returns the article
ParseReturns ==
    /\ AtArticleLoop
    /\ article.article_id < Len(urls)
    /\ \E p \in ArticlePages :
           LET parsed == parse(urls[article.article_id + 1],
                               article.article_id + 1, p)
           IN  /\ parsed.exc = "none"
               /\ article' = parsed.article
    /\ requested' = TRUE
    /\ pc' = "to_raw"
    /\ UNCHANGED <<entry, num_articles, seed_urls, urls, visited_urls, cash, idx,
                   examined, depth, runs, exc, passLen, failedPass, failedRun,
                   cashGood, crashCash, config, assets, fetched, page,
                   response>>

\* parser.parse() raises: the request (the article is as __init__ made it),
\* the title lookup (the text is filled) or strptime (all but the date is)
ParseRaises ==
    /\ AtArticleLoop
    /\ article.article_id < Len(urls)
    /\ \/ /\ article' = NewArticle(urls[article.article_id + 1],
                                   article.article_id + 1)
          /\ exc' = "ConnectionError"
       \/ \E p \in ArticlePages :
              LET parsed == parse(urls[article.article_id + 1],
                                  article.article_id + 1, p)
              IN  /\ parsed.exc # "none"
                  /\ article' = parsed.article
                  /\ exc' = parsed.exc
    /\ requested' = TRUE
    /\ pc' = "uncaught"
    /\ UNCHANGED <<entry, num_articles, seed_urls, urls, visited_urls, cash, idx,
                   examined, depth, runs, passLen, failedPass, failedRun,
                   cashGood, crashCash, config, assets, fetched, page,
                   response>>

\* to_raw(article): the file of the text, empty when the text is
ToRaw ==
    /\ pc = "to_raw"
    /\ assets' = [assets EXCEPT !.files =
                      @ \cup {File(RawName(article.article_id), article.text = <<>>)}]
    /\ pc' = "to_meta"
    /\ UNCHANGED <<entry, num_articles, seed_urls, urls, visited_urls, cash, idx,
                   examined, depth, runs, exc, passLen, failedPass, failedRun,
                   cashGood, crashCash, config, requested, fetched, page,
                   response, article>>

\* to_meta(article)
ToMeta ==
    /\ pc = "to_meta"
    /\ assets' = [assets EXCEPT !.files =
                      @ \cup {File(MetaName(article.article_id), FALSE)}]
    /\ pc' = "articles"
    /\ UNCHANGED <<entry, num_articles, seed_urls, urls, visited_urls, cash, idx,
                   examined, depth, runs, exc, passLen, failedPass, failedRun,
                   cashGood, crashCash, config, requested, fetched, page,
                   response, article>>

\* the loop is over and the entry point returns
MainReturns ==
    /\ AtArticleLoop
    /\ article.article_id = Len(urls)
    /\ pc' = "finished"
    /\ UNCHANGED <<entry, num_articles, seed_urls, urls, visited_urls, cash, idx,
                   examined, depth, runs, exc, passLen, failedPass, failedRun,
                   cashGood, crashCash, config, assets, requested, fetched,
                   page, response, article>>

\* main / main2 from the configuration file to the last article
NextMain ==
    \/ Next
    \/ FindArticlesReturns
    \/ ParseReturns
    \/ ParseRaises
    \/ ToRaw
    \/ ToMeta
    \/ MainReturns

SpecMain == Init /\ [][NextMain]_vars

InitConfig ==
    /\ entry = "main"
    /\ config \in ConfigInputs
    /\ InitRest

NextConfig ==
    \/ ConstructConfigOk
    \/ ConstructConfigRaise

SpecConfig == InitConfig /\ [][NextConfig]_vars

(***************************************************************************)
(* Properties.                                                             *)
(***************************************************************************)
Pending(c) == Range(c.urls) \ c.visited_urls

\* the step is a fetch by the running crawler (not an interruption)
AtFetch ==
    /\ runs' = runs
    /\ \/ entry = "main" /\ pc = "seeds" /\ idx <= Len(seed_urls)
       \/ /\ entry = "main2" /\ pc = "loop" /\ idx <= Len(urls)
          /\ urls[idx] \notin visited_urls

\* the URL a fetch at position i asks for
Target(i) == IF entry = "main" THEN seed_urls[i] ELSE urls[i]

\* the new run is past the reload of the checkpoint file
Resumed ==
    /\ entry = "main2" /\ runs >= 1
    /\ pc \notin {"config", "prepare", "crawler", "bootstrap", "bootstrap_dump", "enter"}

\* C1: in every state of the bounded crawler the collected list has at most
\* num_articles URLs, holds no URL twice and no URL that starts with the
\* excluded prefix https://pravda-nn.ru/long/.
C1_BoundedResult ==
    entry = "main" =>
        /\ Len(urls) <= num_articles
        /\ NoDup(urls)
        /\ \A i \in 1..Len(urls) : ~StartsWith(urls[i], ExcludedPrefix)

\* the second seed brought the list to num_articles and ended the crawl
C1_Witness ==
    /\ entry = "main" /\ pc = "done"
    /\ Len(urls) = num_articles /\ Len(urls) >= 2
    /\ idx = 2 /\ examined = num_urls

\* C2 (as claimed): after an interruption and the reload in the new run, every
\* URL that was pending in the checkpoint before the interruption is in the
\* frontier (until the quota truncates it), and the new run fetches no URL of
\* the checkpoint's visited set.
C2_ResumeLosesNothing ==
    [][ /\ (Resumed' /\ pc' # "done") => Pending(crashCash') \subseteq Range(urls')
        /\ (AtFetch /\ entry = "main2" /\ runs >= 1)
              => urls[idx] \notin crashCash.visited_urls ]_vars

\* C3 (as claimed): when a pass over the whole frontier ends with the quota
\* unmet and no new URL, the crawler neither calls itself again nor ends in an
\* exception.
C3_StopsWhenNoNewWork ==
    [][ ( /\ entry = "main2" /\ runs' = runs
          /\ pc = "loop" /\ idx > Len(urls)
          /\ Len(urls) - 1 < num_articles
          /\ Len(urls) = passLen )
        => pc' \notin {"enter", "uncaught"} ]_vars

\* C4: the frontier of the recursive crawler never holds a URL twice, and a
\* step that appends a URL never appends one of the visited set.
C4_FrontierDedup ==
    [][ entry = "main2" =>
          /\ NoDup(urls')
          /\ (Len(urls') = Len(urls) + 1 /\ runs' = runs /\ pc # "enter")
                => urls'[Len(urls')] \notin visited_urls \cup Range(urls) ]_vars

\* a resumed run, in a restart pass, expanding a page after a failed fetch
C4_Witness ==
    /\ entry = "main2" /\ runs = 1 /\ depth >= 1
    /\ Len(urls) >= 3 /\ Cardinality(visited_urls) >= 2
    /\ failedRun # {}
    /\ pc = "anchors"

\* C5 (as claimed): the recursive crawler never goes on to the checkpoint of a
\* page whose expansion left num_articles or more URLs besides the homepage,
\* and find_articles never returns more than num_articles URLs or a list that
\* holds the homepage.
C5_QuotaTerminates ==
    entry = "main2" =>
        /\ pc = "dump" => Len(urls) - 1 < num_articles
        /\ pc \in {"done", "returned"} =>
              /\ Len(urls) <= num_articles
              /\ ~InList(start_url, urls)

\* C6 (as claimed): at every point of find_articles at which a run of main2
\* (one that began without a damaged file) can be interrupted, the checkpoint
\* file holds a complete {urls, visited_urls} pair.
C6_CheckpointAlwaysComplete ==
    (entry = "main2" /\ runs = 0 /\ pc \in InFindArticles)
        => cash.state = "complete"

\* C7: whenever the recursive crawler is at the head of its loop, the
\* checkpoint file holds exactly the in-memory frontier and visited set, and
\* every URL before the loop position is visited unless its fetch failed in
\* this pass.
C7_CheckpointAfterPage ==
    (entry = "main2" /\ pc = "loop") =>
        /\ cash = FileOf(urls, visited_urls)
        /\ \A j \in 1..(idx - 1) : urls[j] \in visited_urls \/ j \in failedPass

\* the homepage and one more page were expanded below the quota and saved
C7_Witness ==
    /\ entry = "main2" /\ pc = "loop"
    /\ runs = 0 /\ depth = 0 /\ idx = 3
    /\ failedPass = {}
    /\ Len(urls) = 3 /\ num_articles = 3
    /\ visited_urls = {urls[1], urls[2]}
    /\ cash = FileOf(urls, visited_urls)

\* C8: a step of the recursive crawler that skips a pending URL because its
\* fetch failed leaves the frontier, the visited set and the checkpoint file
\* unchanged, does not mark the URL visited, and moves to the next position.
C8_FailedFetchFrame ==
    [][ ( /\ entry = "main2" /\ runs' = runs
          /\ pc = "loop" /\ idx <= Len(urls) /\ urls[idx] \notin visited_urls
          /\ pc' = "loop" )
        => /\ urls' = urls
           /\ visited_urls' = visited_urls
           /\ cash' = cash
           /\ idx' = idx + 1 ]_vars

\* the fetch of the second URL failed and the third is the next to fetch
C8_Witness ==
    /\ entry = "main2" /\ pc = "loop"
    /\ idx = 3 /\ Len(urls) = 3 /\ num_articles = 3
    /\ failedPass = {2}
    /\ visited_urls = {urls[1]}
    /\ cash = FileOf(urls, visited_urls)

C10_ConnectionFailureNotFatal ==
    ~(pc = "uncaught" /\ exc = "ConnectionError")

(***************************************************************************)
(* The data model of the configuration, field by field.                    *)
(***************************************************************************)
SeedsValid(c) ==
    /\ IsList(c.seed_urls)
    /\ Len(c.seed_urls.items) > 0
    /\ \A i \in 1..Len(c.seed_urls.items) :
           /\ IsStr(c.seed_urls.items[i])
           /\ ContainsDomain(c.seed_urls.items[i].s)

TotalValid(c) ==
    c.total_articles.t = "int" /\ c.total_articles.n \in 1..(ArticlesRangeStop - 1)

HeadersValid(c) == IsDict(c.headers)

EncodingValid(c) == IsStr(c.encoding)

TimeoutValid(c) ==
    c.timeout.t = "int" /\ c.timeout.n \in 1..(TimeoutRangeStop - 1)

VerifyValid(c) == IsBool(c.should_verify_certificate)

HeadlessValid(c) == IsBool(c.headless_mode)

InvalidFields(c) ==
    (IF SeedsValid(c) THEN {} ELSE {"seed_urls"})
    \cup (IF TotalValid(c) THEN {} ELSE {"total_articles"})
    \cup (IF HeadersValid(c) THEN {} ELSE {"headers"})
    \cup (IF EncodingValid(c) THEN {} ELSE {"encoding"})
    \cup (IF TimeoutValid(c) THEN {} ELSE {"timeout"})
    \cup (IF VerifyValid(c) THEN {} ELSE {"should_verify_certificate"})
    \cup (IF HeadlessValid(c) THEN {} ELSE {"headless_mode"})

\* the error kind that belongs to a field
ErrorKindOf(c, field) ==
    CASE field = "seed_urls" -> "IncorrectSeedURLError"
      [] field = "total_articles" ->
             IF c.total_articles.t = "int" /\ c.total_articles.n > 0
             THEN "NumberOfArticlesOutOfRangeError"
             ELSE "IncorrectNumberOfArticlesError"
      [] field = "headers" -> "IncorrectHeadersError"
      [] field = "encoding" -> "IncorrectEncodingError"
      [] field = "timeout" -> "IncorrectTimeoutError"
      [] OTHER -> "IncorrectVerifyError"

\* Config(...) has returned or raised
ConfigDone == pc \in {"prepare", "uncaught"}

\* C11 (as claimed): when exactly one field of the configuration is invalid,
\* Config(...) raises the error kind of that field.
C11_SingleFieldError ==
    \A f \in InvalidFields(config) :
        (ConfigDone /\ InvalidFields(config) = {f})
            => (pc = "uncaught" /\ exc = ErrorKindOf(config, f))

\* every field but the article count satisfies the data model
OthersValidForTotal(c) == InvalidFields(c) \subseteq {"total_articles"}

\* every field but the timeout satisfies the data model
OthersValidForTimeout(c) == InvalidFields(c) \subseteq {"timeout"}

Accepted == pc = "prepare" /\ exc = "none"

Rejected(kind) == pc = "uncaught" /\ exc = kind

\* C12: with the other fields valid, an article count of 1 and of 150 is
\* accepted, 0 is rejected with IncorrectNumberOfArticlesError and 151 with
\* NumberOfArticlesOutOfRangeError.
C12_ArticleCountBoundaries ==
    (/\ ConfigDone
     /\ OthersValidForTotal(config)
     /\ config.total_articles.t = "int")
        => /\ config.total_articles.n \in {1, ArticlesRangeStop - 1} => Accepted
           /\ config.total_articles.n = 0
                  => Rejected("IncorrectNumberOfArticlesError")
           /\ config.total_articles.n = ArticlesRangeStop
                  => Rejected("NumberOfArticlesOutOfRangeError")

C12_Witness ==
    /\ OthersValidForTotal(config)
    /\ config.total_articles = IntV(0)
    /\ Rejected("IncorrectNumberOfArticlesError")

\* C13: with the other fields valid, a boolean article count is rejected with
\* IncorrectNumberOfArticlesError and a boolean timeout with
\* IncorrectTimeoutError.
C13_BoolIsNotInt ==
    /\ (ConfigDone /\ OthersValidForTotal(config) /\ IsBool(config.total_articles))
           => Rejected("IncorrectNumberOfArticlesError")
    /\ (ConfigDone /\ OthersValidForTimeout(config) /\ IsBool(config.timeout))
           => Rejected("IncorrectTimeoutError")

C13_Witness ==
    /\ OthersValidForTimeout(config)
    /\ config.timeout = BoolV(TRUE)
    /\ Rejected("IncorrectTimeoutError")

\* C14 (as claimed): a configuration for which Config(...) returns satisfies
\* the data model in every field.
C14_ConstructedIsValid ==
    pc = "prepare" => InvalidFields(config) = {}

ConfigErrorKinds ==
    {"IncorrectSeedURLError", "IncorrectNumberOfArticlesError",
     "NumberOfArticlesOutOfRangeError", "IncorrectHeadersError",
     "IncorrectEncodingError", "IncorrectTimeoutError", "IncorrectVerifyError"}

\* C15: while Config(...) has not returned, and after it has raised, no step
\* of main or main2 resets the output directory, writes the checkpoint file or
\* issues a request.
C15_ConfigBeforeResources ==
    [][ (pc = "config" \/ exc \in ConfigErrorKinds)
            => (assets' = assets /\ cash' = cash /\ requested' = requested) ]_vars

C15_Witness ==
    /\ entry = "main2"
    /\ pc = "uncaught" /\ exc = "IncorrectSeedURLError"
    /\ assets = StaleAssets /\ cash = Absent /\ ~requested

\* the bounded crawler is inside the loop over the seeds, or past it
InSeedLoop == entry = "main" /\ pc \in {"seeds", "seed_anchors", "done", "returned"}

\* C16: the limit of the bounded crawler is ceil(T / N); on a seed page at most
\* that many anchors are examined and at most that many URLs are collected.
C16_PerSeedQuota ==
    InSeedLoop
        => /\ num_urls * Len(seed_urls) >= num_articles
           /\ (num_urls - 1) * Len(seed_urls) < num_articles
           /\ examined <= num_urls
           /\ Len(urls) - passLen <= examined

C16_Witness ==
    /\ entry = "main" /\ pc = "seed_anchors"
    /\ Len(seed_urls) = 2 /\ num_urls = 2
    /\ examined = num_urls
    /\ Len(urls) - passLen = num_urls
    /\ Len(urls) < num_articles

\* C17: the bounded crawler requests the seeds in the order of the
\* configuration, each once at most, and once len(urls) has reached the target
\* it examines no anchor, requests no seed and leaves the list alone.
C17_StopsAtTarget ==
    [][ entry = "main"
            => /\ fetched' # fetched
                   => /\ fetched' = Append(fetched, Len(fetched) + 1)
                      /\ Len(fetched') <= Len(seed_urls)
               /\ (InSeedLoop /\ Len(urls) >= num_articles)
                   => UNCHANGED <<urls, examined, fetched, idx>> ]_vars

C17_Witness ==
    /\ entry = "main" /\ pc = "done"
    /\ Len(urls) = num_articles
    /\ fetched = <<1, 2>>
    /\ examined < num_urls

\* C18: a seed page with a non-ok response leaves the collected list as it is
\* and the loop goes on with the next seed; when the seeds are used up the
\* crawler returns the list it has, without an error.
C18_FailedSeedSkipped ==
    [][ /\ (entry = "main" /\ failedRun' # failedRun)
            => (urls' = urls /\ pc' = "seeds" /\ idx' = idx + 1 /\ exc' = "none")
        /\ (entry = "main" /\ pc = "seeds" /\ idx > Len(seed_urls))
            => (urls' = urls /\ pc' = "returned" /\ exc' = "none") ]_vars

C18_Witness ==
    /\ entry = "main" /\ pc = "returned" /\ exc = "none"
    /\ failedRun # {}
    /\ Len(urls) >= 1 /\ Len(urls) < num_articles

\* an extraction step of parse has run
Extracted ==
    \/ pc \in {"fill_meta", "parsed"}
    \/ pc = "uncaught" /\ exc \in {"AttributeError", "ValueError"}

\* C19 (as claimed): parse runs the extraction of text and metadata only on
\* a response that is ok.
C19_ExtractOnlyOnSuccess ==
    Extracted => response = "ok"

\* C20 (as claimed): on a fetched page whose date, if there is one, is well
\* formed, the extraction raises nothing, and the record returned has the
\* title "NOT FOUND" without the title tag, no topics without the tag
\* container and the current time without the date container.
C20_FallbackForAbsent ==
    (response = "ok" /\ page.date # "malformed")
        => /\ ~(pc = "uncaught" /\ exc \in {"AttributeError", "ValueError"})
           /\ pc = "parsed"
                  => /\ page.title = "absent" => article.title = "NOT FOUND"
                     /\ page.topics = "absent" => article.topics = <<>>
                     /\ page.date = "absent" => article.date = "now"

\* the names the author container of the page yields
AuthorNames == SelectSeq(page.names, IsName)

\* C21: in the record that parse returns for a fetched page, the author list
\* is <<"NOT FOUND">> when the page has no author container or the container
\* yields no names, and otherwise it is exactly the list of the names; it is
\* never empty.
C21_AuthorSentinel ==
    (pc = "parsed" /\ response = "ok")
        => /\ article.author # <<>>
           /\ (page.author = "absent" \/ AuthorNames = <<>>)
                  => article.author = <<"NOT FOUND">>
           /\ (page.author = "present" /\ AuthorNames # <<>>)
                  => article.author = AuthorNames

\* the checks of _validate_config_content, numbered in the order of the claim
CheckFails(c, k) ==
    CASE k = 1 -> \/ ~IsList(c.seed_urls)
                  \/ \E i \in 1..Len(c.seed_urls.items) :
                         \/ ~IsStr(c.seed_urls.items[i])
                         \/ ~ContainsDomain(c.seed_urls.items[i].s)
      [] k = 2 -> ~(c.total_articles.t = "int" /\ c.total_articles.n > 0)
      [] k = 3 -> c.total_articles.n \notin 1..(ArticlesRangeStop - 1)
      [] k = 4 -> ~HeadersValid(c)
      [] k = 5 -> ~EncodingValid(c)
      [] k = 6 -> ~TimeoutValid(c)
      [] OTHER -> ~(VerifyValid(c) /\ HeadlessValid(c))

KindOfCheck ==
    <<"IncorrectSeedURLError", "IncorrectNumberOfArticlesError",
      "NumberOfArticlesOutOfRangeError", "IncorrectHeadersError",
      "IncorrectEncodingError", "IncorrectTimeoutError", "IncorrectVerifyError">>

FailingChecks(c) == { k \in 1..Len(KindOfCheck) : CheckFails(c, k) }

\* C26: Config(...) raises the error of the first failing check in the order
\* seed URLs, positive integer count, count in range, headers, encoding,
\* timeout, flags, whatever the later fields hold, and returns when no check
\* fails.
C26_ValidationPrecedence ==
    ConfigDone
        => /\ FailingChecks(config) = {} => Accepted
           /\ \A k \in FailingChecks(config) :
                  (\A j \in FailingChecks(config) : k <= j)
                      => Rejected(KindOfCheck[k])

C26_Witness ==
    /\ 4 \in FailingChecks(config)
    /\ 6 \in FailingChecks(config)
    /\ 7 \in FailingChecks(config)
    /\ Rejected("IncorrectHeadersError")

\* C24 (as claimed): the recursive crawler is inside a listing container, where
\* it enqueues the container's anchors and tests the quota, only while the
\* URL it processes is not the homepage.
C24_ExclusiveExtraction ==
    (entry = "main2" /\ pc = "anchors") => urls[idx] # start_url

\* the recursive crawler exists and has not reached the quota
BeforeDone ==
    /\ entry = "main2"
    /\ pc \in {"bootstrap", "bootstrap_dump", "enter", "loop", "sections",
               "containers", "anchors", "dump"}

FrontierShape ==
    /\ visited_urls \subseteq Range(urls)
    /\ InList(start_url, urls)
    /\ cash.state = "complete"
           => /\ cash.visited_urls \subseteq Range(cash.urls)
              /\ InList(start_url, cash.urls)

\* C25: before the quota is reached, in memory and in every complete
\* checkpoint file, the visited set is within the frontier list and the
\* homepage is in the list; from one step of a run to the next the list only
\* grows at its end and the visited set only grows.
C25_FrontierInvariant ==
    [][ /\ BeforeDone' => FrontierShape'
        /\ (BeforeDone /\ BeforeDone')
               => /\ Len(urls) <= Len(urls')
                  /\ Take(urls', Len(urls)) = urls
                  /\ visited_urls \subseteq visited_urls' ]_vars

C25_Witness ==
    /\ BeforeDone /\ pc = "loop"
    /\ depth >= 1
    /\ Cardinality(visited_urls) >= 2
    /\ Len(urls) > Cardinality(visited_urls)
    /\ cash.state = "complete" /\ cash.urls = urls

FileNames == { f.name : f \in assets.files }

\* the names of the raw and meta files of the ids 1..k
NamesUpTo(k) == { RawName(i) : i \in 1..k } \cup { MetaName(i) : i \in 1..k }

\* C22: the i-th URL of the crawler's list gets the id i; at the head of the
\* loop of main / main2 the files written are the raw and the meta file of
\* each id up to the last one begun, and when the entry point returns they are
\* those of the ids 1..K, K = len(crawler.urls), one file per name.
C22_ContiguousIds ==
    /\ article.article_id \in 0..Len(urls)
    /\ article.article_id > 0 => article.url = urls[article.article_id]
    /\ AtArticleLoop => FileNames = NamesUpTo(article.article_id)
    /\ pc = "finished"
           => /\ FileNames = NamesUpTo(Len(urls))
              /\ Cardinality(assets.files) = 2 * Len(urls)

C22_Witness ==
    /\ pc = "finished"
    /\ Len(urls) = 3
    /\ FileNames = NamesUpTo(3)
    /\ article.url = urls[3]

RawFiles == { f \in assets.files : HasRaw(f.name) }

MetaFiles == { f \in assets.files : HasMeta(f.name) }

\* the raw and meta files are those of the ids 1..K, K the number of raw files
IdsContiguous ==
    /\ { f.name : f \in RawFiles } = { RawName(i) : i \in 1..Cardinality(RawFiles) }
    /\ { f.name : f \in MetaFiles } = { MetaName(i) : i \in 1..Cardinality(MetaFiles) }

\* the error the claim gives a dataset, "ok" for a dataset it accepts
ExpectedDatasetError ==
    CASE assets.kind = "missing" -> "FileNotFoundError"
      [] assets.kind = "file" -> "NotADirectoryError"
      [] assets.kind = "dir" /\ assets.files = {} -> "EmptyDirectoryError"
      [] OTHER ->
            IF Cardinality(RawFiles) # Cardinality(MetaFiles)
            THEN "InconsistentDatasetError: Number of meta and raw files is not equal."
            ELSE IF \E f \in RawFiles \cup MetaFiles : f.empty
            THEN "InconsistentDatasetError: The file is empty."
            ELSE IF ~IdsContiguous
            THEN "InconsistentDatasetError: IDs contain slips."
            ELSE "ok"

\* C23: CorpusManager(path) returns exactly for a directory that is there, is
\* not empty, has as many raw as meta files, none of them empty, named
\* {i}_raw.txt and {i}_meta.json for i = 1..K; for any other path it raises the
\* error of the first of these conditions that fails, in this order.
C23_DatasetValidation ==
    pc \in {"validated", "uncaught"}
        => /\ pc = "validated" <=> ExpectedDatasetError = "ok"
           /\ pc = "uncaught" => exc = ExpectedDatasetError

\* an empty file and a gap in the ids at once: the empty file is reported
C23_Witness ==
    /\ pc = "uncaught"
    /\ exc = "InconsistentDatasetError: The file is empty."
    /\ Cardinality(RawFiles) = 2 /\ Cardinality(MetaFiles) = 2
    /\ ~IdsContiguous

====
